---- MODULE Spec2Model ----
(***************************************************************************)
(* Model of the pid_set crate (src/src/lib.rs): a PidSet maps PIDs to      *)
(* pidfds, registers them in an epoll instance and waits for exits.       *)
(*                                                                         *)
(* The state is the PidSet's two fields (fd_pids, epoll_fd), the part of   *)
(* the operating system the code talks to (the processes, the descriptor   *)
(* table, the interest list of every epoll instance), the position and     *)
(* locals of the wait call in progress, and history variables that record  *)
(* what the calls did.                                                     *)
(*                                                                         *)
(* Descriptor numbers are opaque handles: the model numbers them from a    *)
(* counter so that every open yields a number no earlier open yielded      *)
(* (the code never closes a pidfd, and close() consumes the PidSet).       *)
(***************************************************************************)
EXTENDS Naturals, Integers, Sequences, FiniteSets, TLC

VARIABLES
    proc,          \* OS: pid -> "alive" | "zombie" (exited, not reaped) | "gone" (reaped)
    open_fds,      \* OS: descriptor table, fd -> pid of a pidfd, 0 for an epoll fd
    interest,      \* OS: epoll fd -> set of [fd, token] registrations
    next_fd,       \* OS: the next unused descriptor number
    fd_pids,       \* PidSet.fd_pids: HashMap<PID, FD>
    epoll_fd,      \* PidSet.epoll_fd: Option<FD>, <<>> is None and <<fd>> is Some(fd)
    pc,            \* "idle" | "polling" (inside wait's loop, at epoll_wait) | "closed"
    op,            \* the public operation in progress or last returned
    n,             \* wait's parameter n
    max_events,    \* wait's local max_events
    total_events,  \* wait's local total_events
    local_epoll,   \* wait's local epoll_fd
    result,        \* what the last call returned: [status, value, pid]
    calls,         \* history: number of wait_any / wait_all calls made
    polls,         \* history: number of epoll_wait calls of the current call
    tracked0,      \* history: the keys of fd_pids when the current call was made
    removed,       \* history: pid -> number of times it was removed from fd_pids
    removed0,      \* history: removed, as it was when the current call was made
    stale,         \* history: some poll reported a PID that had been removed before it
    created,       \* history: every epoll fd this PidSet created
    faults,        \* history: number of OS failures injected so far
    faulted,       \* history: an OS failure was injected during the current call
    prev,          \* history: [op, status] of the call before the current one
    detach_failed, \* history: the PID whose EPOLL_CTL_DEL failed in the current call, else 0
    given          \* history: pid -> number of times the iterator given to new yielded it

vars == <<proc, open_fds, interest, next_fd, fd_pids, epoll_fd, pc, op, n,
          max_events, total_events, local_epoll, result, calls, polls,
          tracked0, removed, removed0, stale, created, faults, faulted, prev,
          detach_failed, given>>

----------------------------------------------------------------------------
(* Bounds *)

NumPids == 3      \* the processes are 1..NumPids
MaxCalls == 2     \* wait_any / wait_all calls per PidSet
MaxFaults == 1    \* OS failures made to happen (EMFILE, ENOMEM, EINTR, EIO)
MaxInput == 3     \* length of the iterator given to PidSet::new

Pids == 1..NumPids

(* The fd every entry holds between new() and init_epoll(): (pid, 0). *)
PlaceholderFd == 0

Range(s) == {s[i] : i \in 1..Len(s)}

Perms(S) == {s \in [1..Cardinality(S) -> S] : \A i, j \in 1..Cardinality(S) : s[i] = s[j] => i = j}

Min(a, b) == IF a < b THEN a ELSE b

Remove(f, k) == [q \in DOMAIN f \ {k} |-> f[q]]

NoResult == [status |-> "none", value |-> 0, pid |-> 0]
Ok(v) == [status |-> "Ok", value |-> v, pid |-> 0]
Err(e, p) == [status |-> e, value |-> 0, pid |-> p]

----------------------------------------------------------------------------
(* Mutant of new: one entry per item of the iterator, keyed by position. *)
NewByIndex(pids) == [i \in 1..Len(pids) |-> PlaceholderFd]

(* PidSet::new: collect (pid, 0) pairs into a HashMap; a repeated PID      *)
(* overwrites its own entry.                                                *)

New(pids) == [p \in Range(pids) |-> PlaceholderFd]

Inputs == UNION {[1..k -> Pids] : k \in 0..MaxInput}

----------------------------------------------------------------------------
(* The state the code's functions read and write, as one record, so that   *)
(* each function is an operator from record to record.  err is "none"      *)
(* while the function is succeeding; ret is its return value.              *)

Cur == [fd_pids |-> fd_pids, epoll_fd |-> epoll_fd, open_fds |-> open_fds,
        interest |-> interest, next_fd |-> next_fd, created |-> created,
        removed |-> removed, err |-> "none", errpid |-> 0, ret |-> 0,
        undetached |-> 0]

Fail(s, e, p) == [s EXCEPT !.err = e, !.errpid = p]

----------------------------------------------------------------------------
(* System calls.                                                           *)

(* epoll_create1(0): a new epoll instance with an empty interest list, or  *)
(* -1 (EMFILE, ENOMEM).  The NumPids numbers after the new descriptor are  *)
(* kept for the pidfds opened for it, so that descriptor numbers do not    *)
(* depend on the order in which the HashMap is iterated.                   *)
EpollCreate1(s, fails) ==
    IF fails THEN Fail(s, "EMFILE", 0)
    ELSE [s EXCEPT !.open_fds = (s.next_fd :> 0) @@ @,
                   !.interest = (s.next_fd :> {}) @@ @,
                   !.created = @ \cup {s.next_fd},
                   !.next_fd = @ + NumPids + 1,
                   !.ret = s.next_fd]

(* pidfd_open(pid, 0): ESRCH when no process has that pid (it was reaped); *)
(* a zombie still has its pid.  The pid found, the call needs a new        *)
(* descriptor and may fail for lack of one (EMFILE, ENFILE, ENOMEM).       *)
PidfdOpen(s, epfd, pid, fails) ==
    IF proc[pid] = "gone" THEN Fail(s, "ESRCH", pid)
    ELSE IF fails THEN Fail(s, "EMFILE", pid)
    ELSE [s EXCEPT !.open_fds = ((epfd + pid) :> pid) @@ @, !.ret = epfd + pid]

(* epoll_ctl(epfd, EPOLL_CTL_ADD, fd, {EPOLLIN, token}) *)
EpollCtlAdd(s, epfd, fd, token, fails) ==
    IF fails THEN Fail(s, "ENOMEM", 0)
    ELSE IF \E r \in s.interest[epfd] : r.fd = fd THEN Fail(s, "EEXIST", 0)
    ELSE [s EXCEPT !.interest[epfd] = @ \cup {[fd |-> fd, token |-> token]}]

(* Mutant of EPOLL_CTL_DEL: it reports success and deletes nothing. *)
EpollCtlDelKeeps(s, epfd, fd) ==
    IF epfd \notin DOMAIN s.interest THEN Fail(s, "EBADF", 0)
    ELSE IF ~(\E r \in s.interest[epfd] : r.fd = fd) THEN Fail(s, "ENOENT", 0)
    ELSE s

(* epoll_ctl(epfd, EPOLL_CTL_DEL, fd, NULL): ENOENT when fd is not in the  *)
(* interest list of epfd.                                                   *)
EpollCtlDel(s, epfd, fd) ==
    IF epfd \notin DOMAIN s.interest THEN Fail(s, "EBADF", 0)
    ELSE IF ~(\E r \in s.interest[epfd] : r.fd = fd) THEN Fail(s, "ENOENT", 0)
    ELSE [s EXCEPT !.interest[epfd] = {r \in @ : r.fd # fd}]

(* A pidfd is readable (EPOLLIN) from the moment its process terminated.   *)
Ready(epfd) ==
    {r \in interest[epfd] : r.fd \in DOMAIN open_fds /\ proc[open_fds[r.fd]] # "alive"}

(* epoll_wait(epfd, events, maxevents, -1): EINVAL when maxevents <= 0;    *)
(* else blocks until an event is ready (here: no return at all) and        *)
(* returns min(ready, maxevents) events in an order of the kernel's        *)
(* choice; EINTR when a signal interrupts it.                               *)
EpollWaitReturns(epfd, maxevents, interrupted) ==
    IF maxevents <= 0 THEN {[errno |-> "EINVAL", events |-> <<>>]}
    ELSE IF interrupted THEN {[errno |-> "EINTR", events |-> <<>>]}
    ELSE LET ready == Ready(epfd)
             k == Min(Cardinality(ready), maxevents)
         IN {[errno |-> "none", events |-> ev] :
                ev \in UNION {Perms(B) : B \in {X \in SUBSET ready : X # {} /\ Cardinality(X) = k}}}

(* close(fd): the descriptor is released; an epoll instance goes with it. *)
SysClose(s, fd, fails) ==
    LET t == [s EXCEPT !.open_fds = Remove(@, fd), !.interest = Remove(@, fd)]
    IN IF fails THEN Fail(t, "EIO", 0) ELSE t

----------------------------------------------------------------------------
(* PidSet's private functions.                                             *)

(* Mutant of register_pid: the event carries the pidfd, not the token. *)
RegisterPidFdToken(s, epfd, pid, token, openFails, ctlFails) ==
    LET a == PidfdOpen(s, epfd, pid, openFails)
    IN IF a.err # "none" THEN Fail(s, "PidFdOpenSyscall", pid)
       ELSE LET b == EpollCtlAdd(a, epfd, a.ret, a.ret, ctlFails)
            IN IF b.err # "none" THEN Fail(a, "EpollCtl", 0)
               ELSE [b EXCEPT !.ret = a.ret]

(* register_pid(epoll_fd, pid, token): pidfd_open, then EPOLL_CTL_ADD with *)
(* the token; the pidfd is returned only when both succeed.                *)
RegisterPid(s, epfd, pid, token, openFails, ctlFails) ==
    LET a == PidfdOpen(s, epfd, pid, openFails)
    IN IF a.err # "none" THEN Fail(s, "PidFdOpenSyscall", pid)
       ELSE LET b == EpollCtlAdd(a, epfd, a.ret, token, ctlFails)
            IN IF b.err # "none" THEN Fail(a, "EpollCtl", 0)
               ELSE [b EXCEPT !.ret = a.ret]

(* deregister_pid(epoll_fd, fd): EPOLL_CTL_DEL; its failure is mapped to   *)
(* PidSetError::EpollWait.                                                  *)
DeregisterPid(s, epfd, fd) ==
    LET a == EpollCtlDel(s, epfd, fd)
    IN IF a.err # "none" THEN Fail(s, "EpollWait", 0) ELSE a

(* The for loop of init_epoll over fd_pids, in HashMap order `order`:      *)
(* every entry's fd is overwritten with a freshly registered pidfd; the    *)
(* first error is returned at once.                                         *)
RECURSIVE RegisterAll(_, _, _, _, _)
RegisterAll(s, epfd, order, openFailAt, ctlFailAt) ==
    IF order = <<>> THEN s
    ELSE LET pid == Head(order)
             r == RegisterPid(s, epfd, pid, pid, openFailAt = pid, ctlFailAt = pid)
         IN IF r.err # "none" THEN r
            ELSE RegisterAll([r EXCEPT !.fd_pids[pid] = r.ret], epfd, Tail(order),
                             openFailAt, ctlFailAt)

(* init_epoll(&mut self): a new epoll instance, every tracked PID          *)
(* registered in it, then self.epoll_fd = Some(it).                         *)
InitEpoll(s, order, createFails, openFailAt, ctlFailAt) ==
    LET a == EpollCreate1(s, createFails)
    IN IF a.err # "none" THEN Fail(s, "EpollCreate", 0)
       ELSE LET b == RegisterAll(a, a.ret, order, openFailAt, ctlFailAt)
            IN IF b.err # "none" THEN b
               ELSE [b EXCEPT !.epoll_fd = <<a.ret>>, !.ret = a.ret]

(* Option::unwrap_or: the option's value, else the default.  The default   *)
(* is an argument, so it has been evaluated whichever is returned.         *)
UnwrapOr(opt, default) == IF opt = <<>> THEN default ELSE opt[1]

(* Mutant of the for loop of wait: it stops after the first event. *)
DrainFirstOnly(s, epfd, events) ==
    IF events = <<>> THEN s
    ELSE LET cdata == Head(events).token
         IN IF cdata \notin DOMAIN s.fd_pids THEN Fail(s, "PidNotFound", cdata)
            ELSE LET d == DeregisterPid(s, epfd, s.fd_pids[cdata])
                 IN IF d.err # "none" THEN [d EXCEPT !.undetached = cdata]
                    ELSE [d EXCEPT !.fd_pids = Remove(@, cdata),
                                   !.removed[cdata] = @ + 1]

(* The for loop of wait over one batch of events: look the token up,       *)
(* deregister the entry's fd from the polled epoll, remove the entry; the  *)
(* first error is returned at once.                                         *)
RECURSIVE Drain(_, _, _)
Drain(s, epfd, events) ==
    IF events = <<>> THEN s
    ELSE LET cdata == Head(events).token
         IN IF cdata \notin DOMAIN s.fd_pids THEN Fail(s, "PidNotFound", cdata)
            ELSE LET d == DeregisterPid(s, epfd, s.fd_pids[cdata])
                 IN IF d.err # "none" THEN [d EXCEPT !.undetached = cdata]
                    ELSE Drain([d EXCEPT !.fd_pids = Remove(@, cdata),
                                         !.removed[cdata] = @ + 1],
                               epfd, Tail(events))

(* Mutants of the loop condition: one turn too many; only one turn. *)
LoopContinuesInclusive(total, want) == total <= want
LoopContinuesFirstBatch(total, want) == total = 0 /\ want > 0

(* Mutant of max_events: never less than one. *)
MaxEventsAtLeastOne(fp) == IF DOMAIN fp = {} THEN 1 ELSE Cardinality(DOMAIN fp)

(* let max_events = self.fd_pids.len() *)
MaxEvents(fp) == Cardinality(DOMAIN fp)

(* while total_events < n *)
LoopContinues(total, want) == total < want

(* Mutant of wait_all's count: it stops one exit short. *)
WaitAllNShort(fp) == IF Cardinality(DOMAIN fp) > 1 THEN Cardinality(DOMAIN fp) - 1
                     ELSE Cardinality(DOMAIN fp)

(* wait_all: self.wait(self.fd_pids.len()) *)
WaitAllN(fp) == Cardinality(DOMAIN fp)

(* wait_any: self.wait(1) *)
WaitAnyN(fp) == 1

WaitN(o, fp) == IF o = "wait_all" THEN WaitAllN(fp) ELSE WaitAnyN(fp)

----------------------------------------------------------------------------
(* Initial state: PidSet::new(input) for an iterator over running          *)
(* processes; nothing has been opened.                                      *)

Init ==
    /\ proc = [p \in Pids |-> "alive"]
    /\ open_fds = <<>>
    /\ interest = <<>>
    /\ next_fd = 1
    /\ \E input \in Inputs :
         /\ fd_pids = New(input)
         /\ given = [p \in Pids |-> Cardinality({i \in 1..Len(input) : input[i] = p})]
    /\ epoll_fd = <<>>
    /\ pc = "idle"
    /\ op = "none"
    /\ n = 0
    /\ max_events = 0
    /\ total_events = 0
    /\ local_epoll = 0
    /\ result = NoResult
    /\ calls = 0
    /\ polls = 0
    /\ tracked0 = {}
    /\ removed = [p \in Pids |-> 0]
    /\ removed0 = [p \in Pids |-> 0]
    /\ stale = FALSE
    /\ created = {}
    /\ faults = 0
    /\ faulted = FALSE
    /\ prev = [op |-> "none", status |-> "none"]
    /\ detach_failed = 0

(* The OS failures that may still be injected. *)
MayFault == {FALSE} \cup {b \in {TRUE} : faults < MaxFaults}
MayFaultAt == {0} \cup {p \in DOMAIN fd_pids : faults < MaxFaults}

(* init_epoll returned the error of a system call that was made to fail. *)
InitInjected(s, createFails, openFailAt) ==
    \/ createFails
    \/ s.err = "EpollCtl"
    \/ s.err = "PidFdOpenSyscall" /\ s.errpid = openFailAt /\ proc[s.errpid] # "gone"

(* At most one system call of a call is made to fail. *)
OneFault(createFails, openFailAt, ctlFailAt, closeFails) ==
    /\ createFails => (openFailAt = 0 /\ ctlFailAt = 0 /\ ~closeFails)
    /\ openFailAt # 0 => (ctlFailAt = 0 /\ ~closeFails)
    /\ ctlFailAt # 0 => ~closeFails

Store(s) ==
    /\ fd_pids' = s.fd_pids
    /\ epoll_fd' = s.epoll_fd
    /\ open_fds' = s.open_fds
    /\ interest' = s.interest
    /\ next_fd' = s.next_fd
    /\ created' = s.created
    /\ removed' = s.removed

Return(r) ==
    /\ pc' = "idle"
    /\ result' = r

----------------------------------------------------------------------------
(* The environment: a monitored process terminates; its parent reaps it.   *)
(* Processes the PidSet does not track have no effect on it.               *)

Exit(p) ==
    /\ p \in DOMAIN fd_pids
    /\ proc[p] = "alive"
    /\ proc' = [proc EXCEPT ![p] = "zombie"]
    /\ UNCHANGED <<open_fds, interest, next_fd, fd_pids, epoll_fd, pc, op, n,
                   max_events, total_events, local_epoll, result, calls, polls,
                   tracked0, removed, removed0, stale, created, faults, faulted, prev,
                   detach_failed, given>>

Reap(p) ==
    /\ p \in DOMAIN fd_pids
    /\ proc[p] = "zombie"
    /\ proc' = [proc EXCEPT ![p] = "gone"]
    /\ UNCHANGED <<open_fds, interest, next_fd, fd_pids, epoll_fd, pc, op, n,
                   max_events, total_events, local_epoll, result, calls, polls,
                   tracked0, removed, removed0, stale, created, faults, faulted, prev,
                   detach_failed, given>>

----------------------------------------------------------------------------
(* wait_any() / wait_all() up to the first epoll_wait: wait(n) takes       *)
(* max_events, evaluates self.epoll_fd.unwrap_or(self.init_epoll()?) and   *)
(* tests the loop condition.                                                *)

WaitCall(o) ==
    /\ pc = "idle"
    /\ calls < MaxCalls
    /\ \E order \in Perms(DOMAIN fd_pids), createFails \in MayFault,
          openFailAt \in MayFaultAt, ctlFailAt \in MayFaultAt :
         LET want == WaitN(o, fd_pids)
             old == epoll_fd
             s == InitEpoll(Cur, order, createFails, openFailAt, ctlFailAt)
             injected == InitInjected(s, createFails, openFailAt)
         IN /\ OneFault(createFails, openFailAt, ctlFailAt, FALSE)
            /\ Store(s)
            /\ op' = o
            /\ n' = want
            /\ max_events' = MaxEvents(fd_pids)
            /\ total_events' = 0
            /\ calls' = calls + 1
            /\ polls' = 0
            /\ tracked0' = DOMAIN fd_pids
            /\ removed0' = removed
            /\ prev' = [op |-> op, status |-> result.status]
            /\ faulted' = injected
            /\ faults' = IF injected THEN faults + 1 ELSE faults
            /\ IF s.err # "none"
               THEN /\ Return(Err(s.err, s.errpid))
                    /\ local_epoll' = 0
               ELSE /\ local_epoll' = UnwrapOr(old, s.ret)
                    /\ IF LoopContinues(0, want)
                       THEN pc' = "polling" /\ result' = NoResult
                       ELSE Return(Ok(0))
    /\ detach_failed' = 0
    /\ UNCHANGED <<proc, stale, given>>

(* One turn of wait's loop: epoll_wait on the local epoll_fd returns a     *)
(* batch, the batch is counted and drained, the loop condition is tested.  *)

Poll ==
    /\ pc = "polling"
    /\ \E interrupted \in MayFault :
       \E w \in EpollWaitReturns(local_epoll, max_events, interrupted) :
         LET injected == (w.errno = "EINTR")
             event_count == Len(w.events)
             total == total_events + event_count
             s == Drain(Cur, local_epoll, w.events)
         IN /\ polls' = polls + 1
            /\ faulted' = (faulted \/ injected)
            /\ faults' = IF injected THEN faults + 1 ELSE faults
            /\ stale' = (stale \/ \E i \in 1..event_count : removed[w.events[i].token] > 0)
            /\ IF w.errno # "none"
               THEN /\ Return(Err("EpollWait", 0))
                    /\ UNCHANGED <<fd_pids, epoll_fd, open_fds, interest, next_fd,
                                   created, removed, total_events, detach_failed>>
               ELSE /\ Store(s)
                    /\ detach_failed' = s.undetached
                    /\ total_events' = total
                    /\ IF s.err # "none" THEN Return(Err(s.err, s.errpid))
                       ELSE IF LoopContinues(total, n) THEN UNCHANGED <<pc, result>>
                       ELSE Return(Ok(total))
    /\ UNCHANGED <<proc, op, n, max_events, local_epoll, calls, tracked0, removed0, prev,
                   given>>

(* close(self): self.epoll_fd.unwrap_or(self.init_epoll()?) is closed; the *)
(* PidSet is consumed whatever is returned.                                 *)

Close ==
    /\ pc = "idle"
    /\ \E order \in Perms(DOMAIN fd_pids), createFails \in MayFault,
          openFailAt \in MayFaultAt, ctlFailAt \in MayFaultAt, closeFails \in MayFault :
         LET old == epoll_fd
             s == InitEpoll(Cur, order, createFails, openFailAt, ctlFailAt)
             c == SysClose(s, UnwrapOr(old, s.ret), closeFails)
             injected == InitInjected(s, createFails, openFailAt)
                            \/ (s.err = "none" /\ closeFails)
         IN /\ OneFault(createFails, openFailAt, ctlFailAt, closeFails)
            /\ ~(closeFails /\ s.err # "none")
            /\ faulted' = injected
            /\ faults' = IF injected THEN faults + 1 ELSE faults
            /\ prev' = [op |-> op, status |-> result.status]
            /\ IF s.err # "none"
               THEN Store(s) /\ result' = Err(s.err, s.errpid)
               ELSE /\ Store(c)
                    /\ result' = IF c.err # "none" THEN Err("EpollClose", 0) ELSE Ok(0)
    /\ pc' = "closed"
    /\ op' = "close"
    /\ tracked0' = DOMAIN fd_pids
    /\ removed0' = removed
    /\ polls' = 0
    /\ detach_failed' = 0
    /\ UNCHANGED <<proc, n, max_events, total_events, local_epoll, calls, stale, given>>

Next ==
    \/ \E p \in Pids : Exit(p)
    \/ \E p \in Pids : Reap(p)
    \/ WaitCall("wait_any")
    \/ WaitCall("wait_all")
    \/ Poll
    \/ Close

Spec == Init /\ [][Next]_vars

(* The blocked epoll_wait returns once an event is ready, and every        *)
(* monitored process terminates.                                            *)
LiveSpec == Spec /\ WF_vars(Poll) /\ \A p \in Pids : WF_vars(Exit(p))

----------------------------------------------------------------------------
(* Properties.                                                             *)

Returned(o) == pc = "idle" /\ op = o

(* The PIDs removed before the current call, and during it. *)
RemovedBefore == {p \in Pids : removed0[p] > 0}
RemovedNow == {p \in Pids : removed[p] > removed0[p]}

NoneGone(S) == \A p \in S : proc[p] # "gone"

(* Descriptors that are open and that neither field of the PidSet holds. *)
Leaked == DOMAIN open_fds \ ({fd_pids[p] : p \in DOMAIN fd_pids} \cup Range(epoll_fd))

(* C1: over any sequence of waits a PID is removed from fd_pids at most    *)
(* once, and no epoll_wait reports a PID that an earlier turn removed.      *)
C1_SingleDelivery ==
    /\ ~stale
    /\ \A p \in Pids : removed[p] <= 1

(* C1 witness: a wait removed a PID, and a later wait call polled. *)
C1_Witness == calls >= 2 /\ RemovedBefore # {} /\ polls >= 1

(* C2: the first wait on a PidSet being wait_all(), with every monitored   *)
(* process terminating and no OS failure, the call returns Ok with         *)
(* fd_pids empty.                                                           *)
C2_DrainToEmpty ==
    (pc = "polling" /\ op = "wait_all" /\ calls = 1)
        ~> (faulted \/ (Returned("wait_all") /\ calls = 1 /\ result.status = "Ok"
                        /\ DOMAIN fd_pids = {}))

(* C2 witness: that wait_all() returned Ok, empty, after at least two      *)
(* separate batches.                                                        *)
C2_Witness ==
    /\ Returned("wait_all") /\ calls = 1 /\ result.status = "Ok"
    /\ DOMAIN fd_pids = {} /\ polls >= 2

(* C3, as claimed: a wait_all() that follows a successful wait_any(), with *)
(* no OS failure ever and every monitored process still having its pid,    *)
(* returns                                                                  *)
(* Ok and leaves fd_pids empty.                                             *)
C3_WaitAllAfterWaitAny ==
    (/\ Returned("wait_all") /\ prev.op = "wait_any" /\ prev.status = "Ok"
     /\ RemovedBefore # {} /\ faults = 0 /\ NoneGone(tracked0))
        => (result.status = "Ok" /\ DOMAIN fd_pids = {})

(* C4, as claimed: a wait_any() whose epoll_wait returned (a tracked       *)
(* process has exited), with no OS failure, returns Ok.                     *)
C4_WaitAnyReturnsOk ==
    (Returned("wait_any") /\ tracked0 # {} /\ polls >= 1 /\ faults = 0)
        => result.status = "Ok"

(* C5: wait_all() returns Ok only when every PID that was tracked when it  *)
(* was called has exited; until then it is in its loop, short of n.         *)
C5_WaitAllWaitsForAll ==
    /\ (Returned("wait_all") /\ result.status = "Ok")
           => \A p \in tracked0 : proc[p] # "alive"
    /\ (pc = "polling" /\ op = "wait_all") => total_events < n

(* C5 witness: wait_all() is in its loop, has drained one exit, and        *)
(* another tracked process is still running.                                *)
C5_Witness ==
    /\ pc = "polling" /\ op = "wait_all" /\ total_events >= 1
    /\ \E p \in tracked0 : proc[p] = "alive"

(* C6: wait_all() on a fresh PidSet that returns Ok has counted exactly    *)
(* as many exits as PIDs were tracked at the call, and removed exactly     *)
(* those PIDs, whatever the batches were.                                   *)
C6_ExactCount ==
    (Returned("wait_all") /\ calls = 1 /\ result.status = "Ok")
        => /\ result.value = Cardinality(tracked0)
           /\ RemovedNow = tracked0
           /\ \A p \in tracked0 : removed[p] = 1

(* C6 witness: such a return for three PIDs in two batches. *)
C6_Witness ==
    /\ Returned("wait_all") /\ calls = 1 /\ result.status = "Ok"
    /\ polls = 2 /\ result.value = 3

(* C7: wait_all() called with fd_pids empty returns Ok(0) in the call      *)
(* itself, without any epoll_wait and without removing anything, unless    *)
(* epoll_create1 fails.                                                     *)
C7_EmptyFastPath ==
    (op = "wait_all" /\ tracked0 = {} /\ ~faulted)
        => /\ pc = "idle"
           /\ result = Ok(0)
           /\ polls = 0
           /\ RemovedNow = {}

(* C7 witness: wait_all() returned on a PidSet that earlier waits drained. *)
C7_Witness ==
    /\ Returned("wait_all") /\ tracked0 = {} /\ RemovedBefore # {}
    /\ result.status = "Ok"

(* C8, as claimed: close() on a PidSet that was never waited on returns Ok *)
(* and leaves no descriptor open.                                           *)
C8_CloseWithoutWait ==
    (pc = "closed" /\ calls = 0 /\ faults = 0)
        => (result.status = "Ok" /\ DOMAIN open_fds = {})

(* C9, as claimed: after a close() that returned Ok no epoll descriptor    *)
(* this PidSet created is open.                                             *)
C9_CloseReleasesEpolls ==
    (pc = "closed" /\ result.status = "Ok") => created \cap DOMAIN open_fds = {}

(* C10, as claimed: when the first wait fails in init_epoll, no descriptor *)
(* is open outside the PidSet's fields, and the tracked PIDs are the same. *)
C10_InitFailureNoLeak ==
    (/\ pc = "idle" /\ calls = 1
     /\ result.status \in {"EpollCreate", "PidFdOpenSyscall", "EpollCtl"})
        => (Leaked = {} /\ DOMAIN fd_pids = tracked0)

(* C11, as claimed: when some tracked PID's process is no longer running   *)
(* as the first wait is called (and no OS failure is injected), that call  *)
(* returns PidFdOpenSyscall for a PID that is not running, without         *)
(* polling.                                                                 *)
C11_DeadPidFailsAsClaimed ==
    [][(/\ pc = "idle" /\ calls = 0 /\ calls' = 1 /\ faults' = 0
        /\ \E p \in DOMAIN fd_pids : proc[p] # "alive")
           => (/\ pc' = "idle"
               /\ result'.status = "PidFdOpenSyscall"
               /\ proc[result'.pid] # "alive"
               /\ polls' = 0)]_vars

IsWait == op \in {"wait_any", "wait_all"}

Aborted(status) == status \notin {"Ok", "none"}

Registrations(epfd, p) == {r \in interest[epfd] : r.token = p}

PidfdsOf(p) == {fd \in DOMAIN open_fds : open_fds[fd] = p}

(* C12, as claimed: when EPOLL_CTL_DEL fails for an event that wait is     *)
(* draining, the call reports the error and the event's PID is removed     *)
(* from fd_pids all the same.                                               *)
C12_DetachFailureStillRemoves ==
    detach_failed # 0
        => (result.status = "EpollWait" /\ detach_failed \notin DOMAIN fd_pids)

(* C13, as claimed: with no OS failure and no reaped process, however many *)
(* operations ran, the PidSet created at most one epoll instance and       *)
(* opened at most one pidfd per PID.                                        *)
C13_SingleInit ==
    (faults = 0 /\ NoneGone(Pids))
        => /\ Cardinality(created) <= 1
           /\ \A p \in Pids : Cardinality(PidfdsOf(p)) <= 1

(* C14, as claimed: no wait ever issues EPOLL_CTL_DEL for a descriptor     *)
(* that is not in the interest list of the epoll it names.                  *)
C14_DetachDiscipline == detach_failed = 0

(* C15: a wait that returns Ok returns the number of PIDs it removed, at   *)
(* least n and more when a batch brought more; every one of them is out of *)
(* fd_pids and out of the polled epoll's interest list.                     *)
C15_WholeBatch ==
    (pc = "idle" /\ IsWait /\ result.status = "Ok")
        => /\ result.value = Cardinality(RemovedNow)
           /\ result.value >= n
           /\ RemovedNow \cap DOMAIN fd_pids = {}
           /\ \A p \in RemovedNow : Registrations(local_epoll, p) = {}

(* C15 witness: wait_any() returned Ok with more exits than it asked for. *)
C15_Witness ==
    Returned("wait_any") /\ result.status = "Ok" /\ result.value > n

(* C16, as claimed: after a wait aborted with an error, fd_pids holds the  *)
(* PIDs tracked at the call less those the call removed; and a later wait, *)
(* with no OS failure and no reaped process, that gets an exit from        *)
(* epoll_wait returns Ok.                                                   *)
C16_AbortLeavesUsable ==
    /\ (pc = "idle" /\ IsWait /\ Aborted(result.status))
           => DOMAIN fd_pids = tracked0 \ RemovedNow
    /\ (/\ pc = "idle" /\ IsWait /\ prev.op \in {"wait_any", "wait_all"}
        /\ Aborted(prev.status) /\ ~faulted /\ NoneGone(tracked0)
        /\ tracked0 # {} /\ polls >= 1)
           => result.status = "Ok"

(* C17: no wait returns PidNotFound; whenever a wait is about to poll, the *)
(* polled epoll's interest list holds only tokens that are keys of         *)
(* fd_pids, each once.                                                      *)
C17_TokenTracked ==
    /\ result.status # "PidNotFound"
    /\ pc = "polling"
          => \A r \in interest[local_epoll] :
                /\ r.token \in DOMAIN fd_pids
                /\ Registrations(local_epoll, r.token) = {r}

(* C17 witness: a second wait is polling an epoll from which an earlier    *)
(* wait removed a PID and in which others are still registered.            *)
C17_Witness ==
    /\ pc = "polling" /\ calls = 2 /\ RemovedBefore # {}
    /\ interest[local_epoll] # {}

(* C18: fd_pids has exactly the distinct PIDs of the iterator as keys; the *)
(* first wait registers each of them once; a first wait_all() that returns *)
(* Ok has counted as many exits as there are distinct PIDs.                 *)
C18_DuplicatesCollapse ==
    /\ calls = 0 => DOMAIN fd_pids = {p \in Pids : given[p] > 0}
    /\ (pc = "polling" /\ calls = 1 /\ polls = 0)
          => \A p \in tracked0 :
                /\ Cardinality(Registrations(local_epoll, p)) = 1
                /\ Cardinality(PidfdsOf(p)) = 1
    /\ (Returned("wait_all") /\ calls = 1 /\ result.status = "Ok")
          => result.value = Cardinality({p \in Pids : given[p] > 0})

(* C18 witness: the iterator repeated a PID, and the first wait_all()      *)
(* returned Ok for two distinct PIDs.                                       *)
C18_Witness ==
    /\ \E p \in Pids : given[p] >= 2
    /\ Returned("wait_all") /\ calls = 1 /\ result.status = "Ok"
    /\ result.value = 2

(* C19: a wait asking for more exits than PIDs are tracked does not block  *)
(* (its epoll_wait returns at once) and returns an error, never Ok.         *)
C19_TooManyRequested ==
    /\ (pc = "polling" /\ n > Cardinality(tracked0))
          => EpollWaitReturns(local_epoll, max_events, FALSE) # {}
    /\ (pc = "idle" /\ IsWait /\ n > Cardinality(tracked0))
          => Aborted(result.status)

(* C19 witness: wait_any() on a PidSet that an earlier wait drained        *)
(* returned the error of its first epoll_wait.                              *)
C19_Witness ==
    /\ Returned("wait_any") /\ tracked0 = {} /\ RemovedBefore # {}
    /\ polls = 1 /\ result.status = "EpollWait"

====
